---- MODULE Spec2Model ----
(***************************************************************************)
(* vaultsync: the secret-tree synchronisation engine (Pull / Push between  *)
(* a KVv2 store and a directory of YAML files) and its dry-run diff.       *)
(*                                                                         *)
(* Paths, file contents and diff text are TLA+ strings, handled character  *)
(* by character the way the Go code handles them (strings.Split,           *)
(* strings.TrimPrefix, filepath.Join, ...).  An intermediate value of the  *)
(* code is an operator argument, or a variable bound by \E x \in {e}.      *)
(***************************************************************************)
EXTENDS Integers, Sequences, FiniteSets, TLC

(***************************************************************************)
(* Go string primitives (package strings).                                 *)
(***************************************************************************)
HasPrefix(s, p) == Len(p) <= Len(s) /\ SubSeq(s, 1, Len(p)) = p

HasSuffix(s, p) == Len(p) <= Len(s) /\ SubSeq(s, Len(s) - Len(p) + 1, Len(s)) = p

TrimPrefix(s, p) == IF HasPrefix(s, p) THEN SubSeq(s, Len(p) + 1, Len(s)) ELSE s

TrimSuffix(s, p) == IF HasSuffix(s, p) THEN SubSeq(s, 1, Len(s) - Len(p)) ELSE s

\* TLC evaluates an operator's argument where it is first used; a loop
\* written as a recursion uses its accumulator here, at every turn, so that
\* the evaluation never nests deeper than the loop itself.
Known(v) == v = v

\* strings.Index(s[i-1:], sep) as a 1-based position in s, 0 when absent.
RECURSIVE IndexFrom(_, _, _)
IndexFrom(s, sep, i) ==
    IF i + Len(sep) - 1 > Len(s) THEN 0
    ELSE IF SubSeq(s, i, i + Len(sep) - 1) = sep THEN i
    ELSE IndexFrom(s, sep, i + 1)

\* strings.Split(s, sep), sep non-empty: always at least one element.
RECURSIVE Split(_, _)
SplitAt(s, sep, i) ==
    IF i = 0 THEN <<s>>
    ELSE <<SubSeq(s, 1, i - 1)>> \o Split(SubSeq(s, i + Len(sep), Len(s)), sep)

Split(s, sep) == SplitAt(s, sep, IndexFrom(s, sep, 1))

\* strings.Join(parts, sep).
RECURSIVE Join(_, _)
Join(parts, sep) ==
    IF Len(parts) = 0 THEN ""
    ELSE IF Len(parts) = 1 THEN parts[1]
    ELSE parts[1] \o sep \o Join(Tail(parts), sep)

\* strings.ReplaceAll(s, old, new), old non-empty.
ReplaceAll(s, old, new) == Join(Split(s, old), new)

\* parts[n:] of a Go slice (0-based n), n <= len(parts).
SliceFrom(parts, n) == SubSeq(parts, n + 1, Len(parts))

(***************************************************************************)
(* Byte order of strings, as sort.Strings uses it.                         *)
(***************************************************************************)
\* The printable ASCII characters in code order: 32 (the space) to 95, and
\* 97 to 126.
AsciiLow == " !\"#$%&'()*+,-./0123456789:;<=>?@ABCDEFGHIJKLMNOPQRSTUVWXYZ[\\]^_"

AsciiHigh == "abcdefghijklmnopqrstuvwxyz{|}~"

\* int(c) for a character of the texts the model handles.
CharCode(c) ==
    IF c = "\n" THEN 10
    ELSE IF IndexFrom(AsciiLow, c, 1) > 0 THEN 31 + IndexFrom(AsciiLow, c, 1)
    ELSE 96 + IndexFrom(AsciiHigh, c, 1)

RECURSIVE StrLess(_, _)
StrLess(a, b) ==
    IF Len(b) = 0 THEN FALSE
    ELSE IF Len(a) = 0 THEN TRUE
    ELSE IF Head(a) = Head(b) THEN StrLess(Tail(a), Tail(b))
    ELSE CharCode(Head(a)) < CharCode(Head(b))

RECURSIVE SortStrings(_)
SortStringsFrom(S, m) == <<m>> \o SortStrings(S \ {m})

SortStrings(S) ==
    IF S = {} THEN <<>>
    ELSE SortStringsFrom(S, CHOOSE a \in S : \A b \in S \ {a} : StrLess(a, b))

(***************************************************************************)
(* package path/filepath on a Unix build (Separator = '/').                *)
(***************************************************************************)
Separator == "/"

\* The element stack filepath.Clean keeps while it scans the path.
RECURSIVE CleanSegs(_, _, _)
CleanSegs(segs, acc, rooted) ==
    IF Len(segs) = 0 THEN acc
    ELSE CleanSegs(Tail(segs),
            IF Head(segs) = "" \/ Head(segs) = "." THEN acc
            ELSE IF Head(segs) = ".."
                 THEN IF Len(acc) > 0 /\ acc[Len(acc)] # ".."
                      THEN SubSeq(acc, 1, Len(acc) - 1)
                      ELSE IF rooted THEN acc ELSE Append(acc, "..")
            ELSE Append(acc, Head(segs)),
            rooted)

CleanOut(rooted, out) ==
    IF rooted THEN Separator \o Join(out, Separator)
    ELSE IF Len(out) = 0 THEN "."
    ELSE Join(out, Separator)

\* filepath.Clean(path).
Clean(path) ==
    IF path = "" THEN "."
    ELSE CleanOut(HasPrefix(path, Separator),
                  CleanSegs(Split(path, Separator), <<>>, HasPrefix(path, Separator)))

\* filepath.Join(a, b): empty elements are ignored, the result is cleaned.
PathJoin(a, b) ==
    IF a = "" /\ b = "" THEN ""
    ELSE Clean(IF a = "" THEN b ELSE IF b = "" THEN a ELSE a \o Separator \o b)

\* filepath.Dir(path) of a cleaned path.
PathDirOf(segs) ==
    IF Len(segs) = 1 THEN "."
    ELSE IF Len(segs) = 2 /\ segs[1] = "" THEN Separator
    ELSE Join(SubSeq(segs, 1, Len(segs) - 1), Separator)

PathDir(path) == PathDirOf(Split(path, Separator))

\* The elements of a cleaned path ("." has none).
IsElem(s) == s # "" /\ s # "."

PathElems(cleaned) == SelectSeq(Split(cleaned, Separator), IsElem)

RECURSIVE CommonLen(_, _)
CommonLen(a, b) ==
    IF Len(a) = 0 \/ Len(b) = 0 \/ Head(a) # Head(b) THEN 0
    ELSE 1 + CommonLen(Tail(a), Tail(b))

\* filepath.Rel(basepath, targpath): [ok, path]; it fails when only one of the
\* two is rooted or when basepath climbs above what targpath names.
PathRelAt(mixed, be, te, k) ==
    IF mixed \/ (k < Len(be) /\ be[k + 1] = "..") THEN [ok |-> FALSE, path |-> ""]
    ELSE IF k = Len(be) /\ k = Len(te) THEN [ok |-> TRUE, path |-> "."]
    ELSE [ok |-> TRUE,
          path |-> Join([i \in 1..(Len(be) - k) |-> ".."] \o SliceFrom(te, k), Separator)]

PathRelElems(mixed, be, te) == PathRelAt(mixed, be, te, CommonLen(be, te))

PathRel(basepath, targpath) ==
    PathRelElems(HasPrefix(basepath, Separator) # HasPrefix(targpath, Separator),
                 PathElems(Clean(basepath)), PathElems(Clean(targpath)))

(***************************************************************************)
(* Path translation, as the client does it.                                *)
(***************************************************************************)
\* The conversion on the split path: "Replace /metadata/ with /data/".
DataPathOf(secretPath, parts) ==
    IF Len(parts) >= 2 /\ parts[2] = "metadata"
    THEN parts[1] \o "/data/" \o Join(SliceFrom(parts, 2), "/")
    ELSE secretPath

\* GetSecret: "Convert metadata path to data path for KVv2".
GetSecretDataPath(secretPath) == DataPathOf(secretPath, Split(secretPath, "/"))

\* PutSecret: the same conversion, written out a second time in the code.
PutSecretDataPath(secretPath) == DataPathOf(secretPath, Split(secretPath, "/"))

\* pullSecretsRecursivelyHelper: the path a leaf's payload is fetched from.
KvPrefixLen == 11

LeafSecretPath(currentPath, key) ==
    IF Len(currentPath) >= KvPrefixLen /\ SubSeq(currentPath, 1, KvPrefixLen) = "kv/metadata"
    THEN "kv/data" \o SubSeq(currentPath, KvPrefixLen + 1, Len(currentPath)) \o "/" \o key
    ELSE currentPath \o "/" \o key

\* pullSecretsRecursivelyHelper: the path a folder key is listed at.
FolderPath(currentPath, key) ==
    currentPath \o "/" \o SubSeq(key, 1, Len(key) - 1) \o "/metadata"

\* writeSecretToFile: the directory the files of a Pull from metadataPath go to.
TargetDirOf(parts, outputDir) ==
    IF Len(parts) > 2 THEN PathJoin(outputDir, Join(SliceFrom(parts, 2), "/"))
    ELSE outputDir

TargetDir(metadataPath, outputDir) == TargetDirOf(Split(metadataPath, "/"), outputDir)

SecretFileIn(relativePath, targetDir) ==
    IF relativePath = "" THEN [ok |-> FALSE, filePath |-> ""]
    ELSE [ok |-> TRUE, filePath |-> PathJoin(targetDir, relativePath \o ".yaml")]

\* A variant of SecretFilePath whose target directory leaves out the sub-path
\* of the base.
SecretFilePathFlat(secretPath, metadataPath, outputDir) ==
    SecretFileIn(TrimPrefix(TrimPrefix(secretPath, metadataPath), "/"), outputDir)

\* writeSecretToFile: the file a secret is written to; ok is FALSE when the
\* relative path is empty ("cannot determine file name").
SecretFilePath(secretPath, metadataPath, outputDir) ==
    SecretFileIn(TrimPrefix(TrimPrefix(secretPath, metadataPath), "/"),
                 TargetDir(metadataPath, outputDir))

PushBaseOf(inputDir, parts) ==
    IF Len(parts) < 2 \/ parts[2] # "metadata"
    THEN [ok |-> FALSE, kvEngine |-> "", subPath |-> "", baseDir |-> ""]
    ELSE IF Len(parts) > 2
    THEN [ok |-> TRUE, kvEngine |-> parts[1],
          subPath |-> Join(SliceFrom(parts, 2), "/"),
          baseDir |-> PathJoin(inputDir, Join(SliceFrom(parts, 2), "/"))]
    ELSE [ok |-> TRUE, kvEngine |-> parts[1], subPath |-> "", baseDir |-> inputDir]

\* PushSecretsFromFiles: engine, sub-path and base directory derived from the
\* metadata path; ok is FALSE for "invalid metadata path".
PushBase(inputDir, metadataPath) == PushBaseOf(inputDir, Split(metadataPath, "/"))

VaultPathOf(rel, kvEngine, subPath) ==
    IF ~rel.ok THEN [ok |-> FALSE, vaultPath |-> ""]
    ELSE [ok |-> TRUE,
          vaultPath |->
            IF subPath # ""
            THEN kvEngine \o "/metadata/" \o subPath \o "/"
                 \o ReplaceAll(TrimSuffix(rel.path, ".yaml"), Separator, "/")
            ELSE kvEngine \o "/metadata/"
                 \o ReplaceAll(TrimSuffix(rel.path, ".yaml"), Separator, "/")]

\* A variant of FileVaultPath that leaves out the sub-path of the base.
FileVaultPathNoSub(filePath, baseDir, kvEngine, subPath) ==
    VaultPathOf(PathRel(baseDir, filePath), kvEngine, "")

\* PushSecretsFromFiles, the walk callback: the vault path of a file.
FileVaultPath(filePath, baseDir, kvEngine, subPath) ==
    VaultPathOf(PathRel(baseDir, filePath), kvEngine, subPath)

(***************************************************************************)
(* Payloads and their YAML / JSON encodings.  A payload is a function from *)
(* key to scalar; a scalar is [t, v] with t one of "str" (a string), "num" *)
(* (a float64 decoded from JSON) and "int" (an int decoded from YAML), and *)
(* v its text.                                                             *)
(***************************************************************************)
NoData == [k \in {} |-> [t |-> "str", v |-> ""]]

Digits == "0123456789"

RECURSIVE IsDigits(_)
IsDigits(s) ==
    IF Len(s) = 0 THEN TRUE
    ELSE IndexFrom(Digits, Head(s), 1) > 0 /\ IsDigits(Tail(s))

\* A string scalar that would resolve to another type is written quoted.
NeedsQuote(s) == s = "" \/ IsDigits(s) \/ s \in {"true", "false", "null", "~"}

YamlScalar(x) ==
    IF x.t = "str" /\ NeedsQuote(x.v) THEN "\"" \o x.v \o "\"" ELSE x.v

RECURSIVE YamlLines(_, _)
YamlLines(data, keys) ==
    IF Len(keys) = 0 THEN ""
    ELSE Head(keys) \o ": " \o YamlScalar(data[Head(keys)]) \o "\n"
         \o YamlLines(data, Tail(keys))

\* yaml.Marshal of a map[string]interface{}: keys in sorted order, one per
\* line; an empty (or nil) map is "{}".
YamlMarshal(data) ==
    IF DOMAIN data = {} THEN "{}\n"
    ELSE YamlLines(data, SortStrings(DOMAIN data))

BadLine == [ok |-> FALSE, key |-> "", val |-> [t |-> "str", v |-> ""]]

YamlParseScalar(key, raw) ==
    IF raw = "" \/ HasPrefix(raw, "[") \/ HasPrefix(raw, "{") THEN BadLine
    ELSE IF HasPrefix(raw, "\"")
    THEN IF Len(raw) >= 2 /\ HasSuffix(raw, "\"")
         THEN [ok |-> TRUE, key |-> key, val |-> [t |-> "str", v |-> SubSeq(raw, 2, Len(raw) - 1)]]
         ELSE BadLine
    ELSE [ok |-> TRUE, key |-> key,
          val |-> [t |-> IF IsDigits(raw) THEN "int" ELSE "str", v |-> raw]]

YamlParseAt(line, i) ==
    IF i < 2 THEN BadLine
    ELSE YamlParseScalar(SubSeq(line, 1, i - 1), SubSeq(line, i + 2, Len(line)))

\* One "key: value" line of a block mapping: [ok, key, val].
YamlParseLine(line) == YamlParseAt(line, IndexFrom(line, ": ", 1))

YamlMapOf(parsed, keys) ==
    IF (\E j \in DOMAIN parsed : ~parsed[j].ok) \/ Cardinality(keys) # Len(parsed)
    THEN [ok |-> FALSE, data |-> NoData]
    ELSE [ok |-> TRUE,
          data |-> [k \in keys |-> parsed[CHOOSE j \in DOMAIN parsed : parsed[j].key = k].val]]

YamlParsed(parsed) == YamlMapOf(parsed, {parsed[j].key : j \in DOMAIN parsed})

YamlParseLines(lines) == YamlParsed([j \in DOMAIN lines |-> YamlParseLine(lines[j])])

\* yaml.Unmarshal into a map[string]interface{}: [ok, data].  An empty
\* document leaves the map nil; a repeated key is an error.
YamlUnmarshal(text) ==
    IF text = "" \/ text = "{}\n" THEN [ok |-> TRUE, data |-> NoData]
    ELSE YamlParseLines(Split(TrimSuffix(text, "\n"), "\n"))

\* json.Marshal by PutSecret, then json.Unmarshal by GetSecret: every number
\* comes back as a float64.
JsonRoundTrip(data) ==
    [k \in DOMAIN data |->
        IF data[k].t = "int" THEN [t |-> "num", v |-> data[k].v] ELSE data[k]]

(***************************************************************************)
(* The dry-run diff.                                                       *)
(***************************************************************************)
RECURSIVE Itoa(_)
Itoa(n) ==
    IF n < 10 THEN SubSeq(Digits, n + 1, n + 1)
    ELSE Itoa(n \div 10) \o SubSeq(Digits, (n % 10) + 1, (n % 10) + 1)

(***************************************************************************)
(* generateShortHash: hash = hash*31 + int(c) over the characters, on a    *)
(* 64-bit int that wraps; then the absolute value, modulo 0xfffffff, as    *)
(* seven hexadecimal digits.                                               *)
(***************************************************************************)
HexDigits == "0123456789abcdef"

Limb == 65536

\* hash*31 + c on a 64-bit int held as four 16-bit limbs, lowest first; the
\* carry out of the top limb is dropped, as the overflow wraps.
RECURSIVE MulAdd(_, _, _)
MulAdd(limbs, carry, i) ==
    IF i > Len(limbs) THEN <<>>
    ELSE <<(limbs[i] * 31 + carry) % Limb>>
         \o MulAdd(limbs, (limbs[i] * 31 + carry) \div Limb, i + 1)

\* The loop over the characters lo..hi of content, from the hash so far:
\* the loop over a range is the loop over its first half, then over the rest.
RECURSIVE HashOf(_, _, _, _)
HashOf(limbs, content, lo, hi) ==
    IF lo > hi \/ ~Known(limbs) THEN limbs
    ELSE IF lo = hi THEN MulAdd(limbs, CharCode(SubSeq(content, lo, lo)), 1)
    ELSE HashOf(HashOf(limbs, content, lo, (lo + hi) \div 2), content,
                (lo + hi) \div 2 + 1, hi)

\* -hash in two's complement.
RECURSIVE Negate(_, _, _)
Negate(limbs, carry, i) ==
    IF i > Len(limbs) THEN <<>>
    ELSE <<(Limb - 1 - limbs[i] + carry) % Limb>>
         \o Negate(limbs, (Limb - 1 - limbs[i] + carry) \div Limb, i + 1)

\* hash % 0xfffffff for a non-negative hash: 2^28 is 1 modulo 0xfffffff.
ModMask(limbs) ==
    (limbs[1] + (limbs[2] % 4096) * Limb + limbs[2] \div 4096 + limbs[3] * 16
     + (limbs[4] % 256) * 1048576 + limbs[4] \div 256) % 268435455

RECURSIVE Hex(_, _)
Hex(n, width) ==
    IF width = 0 THEN ""
    ELSE Hex(n \div 16, width - 1) \o SubSeq(HexDigits, (n % 16) + 1, (n % 16) + 1)

\* "%07x" of hash%0xfffffff after "if hash < 0 { hash = -hash }"; the one
\* hash that stays negative is the smallest int, whose remainder is -0x80.
ShortHashOf(limbs) ==
    IF limbs = <<0, 0, 0, Limb \div 2>> THEN "-000080"
    ELSE Hex(ModMask(limbs), 7)

\* "if hash < 0 { hash = -hash }": the top bit is the sign.
AbsHash(limbs) == IF limbs[4] >= Limb \div 2 THEN Negate(limbs, 1, 1) ELSE limbs

generateShortHash(content) == ShortHashOf(AbsHash(HashOf(<<0, 0, 0, 0>>, content, 1, Len(content))))

max(a, b) == IF a > b THEN a ELSE b

ContextLines == 3

RECURSIVE ConcatLines(_)
ConcatLines(lines) ==
    IF Len(lines) = 0 THEN "" ELSE Head(lines) \o "\n" \o ConcatLines(Tail(lines))

IsOldLine(line) == HasPrefix(line, "-") \/ HasPrefix(line, " ")

IsNewLine(line) == HasPrefix(line, "+") \/ HasPrefix(line, " ")

\* writeHunk: the header counts the body lines by prefix.
writeHunk(diff, start, lines) ==
    diff \o "@@ -" \o Itoa(start + 1) \o "," \o Itoa(Len(SelectSeq(lines, IsOldLine)))
         \o " +" \o Itoa(start + 1) \o "," \o Itoa(Len(SelectSeq(lines, IsNewLine)))
         \o " @@\n" \o ConcatLines(lines)

\* The number of " "-prefixed lines at the end of hunkLines.
RECURSIVE TrailingContext(_)
TrailingContext(hunkLines) ==
    IF Len(hunkLines) = 0 \/ ~HasPrefix(hunkLines[Len(hunkLines)], " ") THEN 0
    ELSE 1 + TrailingContext(SubSeq(hunkLines, 1, Len(hunkLines) - 1))

\* existingLines[i] / newLines[i] of the loop, "" beyond the end.
LineAt(lines, i) == IF i < Len(lines) THEN lines[i + 1] ELSE ""

\* "Add context before the change": lines hunkStart .. i-1 of the old text.
ContextBefore(hunkStart, i, existingLines) ==
    [j \in 1..((IF i < Len(existingLines) THEN i ELSE Len(existingLines)) - hunkStart) |->
        " " \o existingLines[hunkStart + j]]

\* "Start new hunk" when none is open.  st = [diff, inHunk, hunkStart, hunkLines].
OpenHunk(st, i, existingLines) ==
    IF st.inHunk THEN st
    ELSE [st EXCEPT !.inHunk = TRUE, !.hunkStart = max(0, i - ContextLines),
                    !.hunkLines = ContextBefore(max(0, i - ContextLines), i, existingLines)]

\* "Add removed line" / "Add added line".
ChangeLines(i, existingLines, newLines, existingLine, newLine) ==
    (IF i < Len(existingLines) /\ existingLine # "" THEN <<"-" \o existingLine>> ELSE <<>>)
    \o (IF i < Len(newLines) /\ newLine # "" THEN <<"+" \o newLine>> ELSE <<>>)

\* "Check if we should end the hunk (after 3 context lines)".
EndHunkAfter(st, contextCount) ==
    IF contextCount >= ContextLines
    THEN [st EXCEPT !.inHunk = FALSE,
             !.diff = writeHunk(st.diff, st.hunkStart,
                        SubSeq(st.hunkLines, 1,
                               Len(st.hunkLines) - contextCount + ContextLines))]
    ELSE st

EndHunkIfDue(st) == EndHunkAfter(st, TrailingContext(st.hunkLines))

DiffLine(st, i, existingLines, newLines, existingLine, newLine) ==
    IF existingLine # newLine
    THEN [OpenHunk(st, i, existingLines) EXCEPT
             !.hunkLines = @ \o ChangeLines(i, existingLines, newLines, existingLine, newLine)]
    ELSE IF st.inHunk
    THEN EndHunkIfDue([st EXCEPT !.hunkLines = @ \o <<" " \o existingLine>>])
    ELSE st

\* One iteration of generateUnifiedDiff's loop, at 0-based line index i.
DiffStep(st, i, existingLines, newLines) ==
    DiffLine(st, i, existingLines, newLines, LineAt(existingLines, i), LineAt(newLines, i))

RECURSIVE DiffLoop(_, _, _, _, _)
DiffLoop(st, i, maxLines, existingLines, newLines) ==
    IF i >= maxLines \/ ~Known(st) THEN st
    ELSE DiffLoop(DiffStep(st, i, existingLines, newLines), i + 1, maxLines,
                  existingLines, newLines)

DiffHeader(existing, new, filename) ==
    "diff --git a/" \o filename \o " b/" \o filename \o "\n"
    \o "index " \o generateShortHash(existing) \o ".." \o generateShortHash(new)
    \o " 100644\n"
    \o "--- a/" \o filename \o "\n"
    \o "+++ b/" \o filename \o "\n"

\* "Close any remaining hunk".
CloseDiff(st) ==
    IF st.inHunk THEN writeHunk(st.diff, st.hunkStart, st.hunkLines) ELSE st.diff

DiffOfLines(header, existingLines, newLines) ==
    CloseDiff(DiffLoop([diff |-> header, inHunk |-> FALSE, hunkStart |-> 0,
                        hunkLines |-> <<>>],
                       0, max(Len(existingLines), Len(newLines)), existingLines, newLines))

\* A variant of generateUnifiedDiff without the "No changes" return.
generateUnifiedDiffAlways(existing, new, filename) ==
    DiffOfLines(DiffHeader(existing, new, filename),
                Split(existing, "\n"), Split(new, "\n"))

generateUnifiedDiff(existing, new, filename) ==
    IF existing = new THEN ""
    ELSE DiffOfLines(DiffHeader(existing, new, filename),
                     Split(existing, "\n"), Split(new, "\n"))

NonEmptyLine(line) == line # ""

\* The lines the "new file" loop writes: an empty line only when keepEmpty,
\* which is strings.HasSuffix(newYaml, "\n").
KeptLines(lines, keepEmpty) ==
    IF keepEmpty THEN lines ELSE SelectSeq(lines, NonEmptyLine)

\* fmt.Sprintf("+%s\n", line) for each line written.
NewFileBodyOf(lines) == ConcatLines([j \in DOMAIN lines |-> "+" \o lines[j]])

NewFileBody(newYaml) ==
    NewFileBodyOf(KeptLines(Split(newYaml, "\n"), HasSuffix(newYaml, "\n")))

NewFileHeader(vaultPath, newYaml) ==
    "diff --git a/" \o vaultPath \o " b/" \o vaultPath \o "\n"
    \o "new file mode 100644\n"
    \o "index 0000000.." \o generateShortHash(newYaml) \o "\n"
    \o "--- /dev/null\n"
    \o "+++ b/" \o vaultPath \o "\n"

DiffTexts(vaultPath, fetched, existingYaml, newYaml) ==
    IF ~fetched
    THEN NewFileHeader(vaultPath, newYaml) \o NewFileBody(newYaml)
    ELSE generateUnifiedDiff(existingYaml, newYaml, vaultPath)

\* showDryRunDiff: the text handed to outputDiff ("" when nothing is shown).
\* got = [ok, data] is what GetSecret returned for vaultPath.
DryRunDiff(vaultPath, got, newData) ==
    DiffTexts(vaultPath, got.ok, IF got.ok THEN YamlMarshal(got.data) ELSE "",
              YamlMarshal(newData))

VARIABLES
    engine,     \* name of the store's KVv2 mount, the <engine> of every path
    basePath,   \* the metadata base path given to Pull and to Push
    store,      \* the store: logical path under the mount -> payload
    files,      \* the local files: cleaned path -> content
    dirs,       \* the local directories that exist (cleaned paths)
    pc,         \* "idle", "walk", "write" (Pull), "push", "done"
    stack,      \* Pull: the frames of pullSecretsRecursivelyHelper, innermost last
    secrets,    \* Pull: the accumulated map, full metadata path -> payload
    todo,       \* Pull: keys of secrets the write loop has not ranged over yet
    queue,      \* Push: what filepath.Walk has still to visit, in order
    dryRun,     \* Push: the dry-run flag
    result,     \* [pull, push]: "none", "ok" or "error"; errPath names a failed listing
    reqs,       \* every request the store has received, in order
    warnings,   \* the "Warning: ..." lines printed, in order
    sink,       \* every text handed to outputDiff, in order
    term,       \* the preview: tools on PATH, detectDiffTool's cache, what was output
    hist,       \* [nfail, nedit]: injected failures and local edits so far
    fn          \* the function studied on its own: [op, step, arg, res]

vars == <<engine, basePath, store, files, dirs, pc, stack, secrets, todo, queue,
          dryRun, result, reqs, warnings, sink, term, hist, fn>>

mainVars == <<engine, basePath, store, files, dirs, pc, stack, secrets, todo, queue,
              dryRun, result, reqs, warnings, sink, term, hist>>

\* runPullCommand: "Default output directory if not specified".
OutputDir == "./vault-secrets"

(***************************************************************************)
(* Bounds and the inputs the runs are drawn from.                          *)
(***************************************************************************)
MaxFail == 2   \* requests and file writes that fail for a transient reason
MaxEdit == 1   \* local edits between Pull and Push

Engines == {"kv", "secret"}

\* The leaves a store may hold (logical paths under the mount).
StorePaths == {"db", "app", "app/db", "app/metadata/db", "app/metadata/metadata/db"}

\* What the store holds at a leaf: the payload names its own path.
PayloadOf(lp) == [path |-> [t |-> "str", v |-> lp], port |-> [t |-> "num", v |-> "5432"]]

\* The metadata paths a command may be given: the two the documented use
\* builds, and two that do not have the shape <engine>/metadata[/subpath].
BasePaths(e) == {e \o "/metadata", e \o "/metadata/app", e \o "/data", e}

\* Files a user may add and contents a user may give a file before a Push.
NewFiles == {"vault-secrets/app/new.yaml", "vault-secrets/notes.txt"}

EditTexts == {"path: edited\nport: 5433\n", "port: [\n"}

\* The content of a file that is not YAML is never read: one text stands for all.
EditTextsFor(f) == IF HasSuffix(f, ".yaml") THEN EditTexts ELSE {"notes\n"}

NoFn == [op |-> "none", step |-> 0, arg |-> "", res |-> ""]


(***************************************************************************)
(* The store's side of the three requests (a KVv2 mount).                  *)
(***************************************************************************)
LogicalOf(parts, ns) ==
    IF Len(parts) >= 2 /\ parts[1] = engine /\ parts[2] = ns
    THEN [ok |-> TRUE, lp |-> Join(SliceFrom(parts, 2), "/")]
    ELSE [ok |-> FALSE, lp |-> ""]

\* The logical path a request path names under the mount, for namespace ns
\* ("metadata" or "data"): [ok, lp].
Logical(path, ns) == LogicalOf(Split(path, "/"), ns)

\* A child's key: a leaf by its name, a sub-folder by its name followed by "/".
KeyOf(segs) == IF Len(segs) = 1 THEN segs[1] ELSE segs[1] \o "/"

\* The keys directly under folder lp.
ChildKeys(lp) ==
    IF lp = "" THEN {KeyOf(Split(k, "/")) : k \in DOMAIN store}
    ELSE {KeyOf(Split(SubSeq(k, Len(lp) + 2, Len(k)), "/")) :
            k \in {x \in DOMAIN store : HasPrefix(x, lp \o "/")}}

ListAt(l) ==
    IF l.ok /\ ChildKeys(l.lp) # {}
    THEN [ok |-> TRUE, keys |-> SortStrings(ChildKeys(l.lp))]
    ELSE [ok |-> FALSE, keys |-> <<>>]

\* LIST on a metadata path: the keys in sorted order; an empty folder is 404.
StoreList(path) == ListAt(Logical(path, "metadata"))

ReadAt(l) ==
    IF l.ok /\ l.lp \in DOMAIN store
    THEN [ok |-> TRUE, data |-> store[l.lp]]
    ELSE [ok |-> FALSE, data |-> NoData]

\* GET on a data path: the payload; 404 when no secret is there.
StoreRead(path) == ReadAt(Logical(path, "data"))

AcceptsAt(l) == l.ok /\ l.lp # "" /\ ~HasSuffix(l.lp, "/")

\* POST on a data path: whether the store takes the write.
StoreAccepts(path) == AcceptsAt(Logical(path, "data"))

\* The store once it has taken the write.
StoreAfterWrite(path, data) ==
    [k \in DOMAIN store \cup {Logical(path, "data").lp} |->
        IF k = Logical(path, "data").lp THEN JsonRoundTrip(data) ELSE store[k]]

\* A request may fail for a transient reason while the budget lasts.
MayFail == hist.nfail < MaxFail

Outcomes(possible) ==
    IF possible THEN {TRUE} \cup (IF MayFail THEN {FALSE} ELSE {}) ELSE {FALSE}

Charge(ok, possible) ==
    IF ~ok /\ possible THEN [hist EXCEPT !.nfail = @ + 1] ELSE hist

(***************************************************************************)
(* The local file system.                                                  *)
(***************************************************************************)
\* A directory and every directory above it, as os.MkdirAll creates them.
RECURSIVE Ancestors(_)
Ancestors(dir) ==
    IF dir = "." \/ dir = Separator THEN {dir}
    ELSE {dir} \cup Ancestors(PathDir(dir))

\* os.MkdirAll(dir) succeeds unless a file is in the way.
MkdirAllOk(dir) == Ancestors(dir) \cap DOMAIN files = {}

\* Element-wise order of two paths: the order filepath.Walk visits them in
\* (the entries of a directory by name, a directory before what it holds).
RECURSIVE ElemsLess(_, _)
ElemsLess(a, b) ==
    IF Len(b) = 0 THEN FALSE
    ELSE IF Len(a) = 0 THEN TRUE
    ELSE IF Head(a) = Head(b) THEN ElemsLess(Tail(a), Tail(b))
    ELSE StrLess(Head(a), Head(b))

RECURSIVE SortPaths(_)
SortPathsFrom(S, m) == <<m>> \o SortPaths(S \ {m})

SortPaths(S) ==
    IF S = {} THEN <<>>
    ELSE SortPathsFrom(S, CHOOSE a \in S :
                               \A b \in S \ {a} : ElemsLess(PathElems(a), PathElems(b)))

ElemsUnder(re, pe) == Len(pe) > Len(re) /\ SubSeq(pe, 1, Len(re)) = re

IsUnder(root, p) == ElemsUnder(PathElems(Clean(root)), PathElems(p))

WalkEntries(root, below) ==
    <<[path |-> root, isDir |-> Clean(root) \in dirs]>>
    \o [j \in 1..Len(below) |-> [path |-> below[j], isDir |-> below[j] \in dirs]]

\* filepath.Walk(root): the root as given, then everything under it.
WalkOrder(root) ==
    WalkEntries(root, SortPaths({p \in dirs \cup DOMAIN files : IsUnder(root, p)}))

(***************************************************************************)
(* Pull: PullSecretsToFiles.                                               *)
(***************************************************************************)
Req(op, path, ok, for, keys, data) ==
    [op |-> op, path |-> path, ok |-> ok, for |-> for, keys |-> keys, data |-> data]

Top == stack[Len(stack)]

SetTop(f) == [stack EXCEPT ![Len(stack)] = f]

Frame(path) == [path |-> path, listed |-> FALSE, keys |-> <<>>, i |-> 0]

\* runPullCommand -> PullSecretsToFiles -> PullSecretsRecursively.
PullStart ==
    /\ pc = "idle" /\ result.pull = "none" /\ result.push = "none" /\ hist.nedit = 0
    /\ pc' = "walk"
    /\ stack' = <<Frame(basePath)>>
    /\ secrets' = [k \in {} |-> NoData]
    /\ UNCHANGED <<engine, basePath, store, files, dirs, todo, queue, dryRun, result,
                   reqs, warnings, sink, term, hist, fn>>

\* A variant of ListErrorIsFatal: only the listing of the initial path ends
\* the walk.
OnlyInitialListIsFatal(depth) == depth = 1

\* Whether a failed listing ends the walk with the error (it does, at any depth).
ListErrorIsFatal(depth) == TRUE

ListReturned(top, ans, ok) ==
    /\ reqs' = Append(reqs, Req("list", top.path, ok, top.path,
                                IF ok THEN ans.keys ELSE <<>>, NoData))
    /\ hist' = Charge(ok, ans.ok)
    /\ IF ok
       THEN /\ stack' = SetTop([top EXCEPT !.listed = TRUE, !.keys = ans.keys])
            /\ UNCHANGED <<pc, result>>
       ELSE IF ListErrorIsFatal(Len(stack))
       THEN /\ stack' = <<>>
            /\ pc' = "idle"
            /\ result' = [result EXCEPT !.pull = "error", !.errPath = top.path]
       ELSE /\ stack' = SetTop([top EXCEPT !.listed = TRUE])
            /\ UNCHANGED <<pc, result>>

ListFrame(top) ==
    /\ ~top.listed
    /\ \E ans \in {StoreList(top.path)} :
          \E ok \in Outcomes(ans.ok) : ListReturned(top, ans, ok)

\* pullSecretsRecursivelyHelper: v.ListSecrets(currentPath).
PullList ==
    /\ pc = "walk" /\ Len(stack) > 0
    /\ ListFrame(Top)
    /\ UNCHANGED <<engine, basePath, store, files, dirs, secrets, todo, queue, dryRun,
                   warnings, sink, term, fn>>

IsFolderKey(key) == SubSeq(key, Len(key), Len(key)) = "/"

HasKey(top) == top.listed /\ top.i < Len(top.keys)

EnterFolder(top, key) ==
    /\ IsFolderKey(key)
    /\ stack' = Append(SetTop([top EXCEPT !.i = @ + 1]), Frame(FolderPath(top.path, key)))

FolderFrame(top) == HasKey(top) /\ EnterFolder(top, top.keys[top.i + 1])

\* The loop body for a key that ends with "/": recurse into the folder.
PullFolder ==
    /\ pc = "walk" /\ Len(stack) > 0
    /\ FolderFrame(Top)
    /\ UNCHANGED <<engine, basePath, store, files, dirs, pc, secrets, todo, queue,
                   dryRun, result, reqs, warnings, sink, term, hist, fn>>

\* A variant of SkipFailedLeaf: a leaf is kept whatever its fetch returned.
NeverSkipLeaf(ok) == FALSE

\* Whether a leaf whose fetch failed is skipped with a warning.
SkipFailedLeaf(ok) == ~ok

LeafReturned(fullPath, dataPath, ans, ok) ==
    /\ reqs' = Append(reqs, Req("read", dataPath, ok, fullPath, <<>>,
                                IF ok THEN ans.data ELSE NoData))
    /\ hist' = Charge(ok, ans.ok)
    /\ IF SkipFailedLeaf(ok)
       THEN /\ warnings' = Append(warnings, [kind |-> "fetch", path |-> fullPath])
            /\ UNCHANGED secrets
       ELSE /\ secrets' = [k \in DOMAIN secrets \cup {fullPath} |->
                             IF k = fullPath THEN ans.data ELSE secrets[k]]
            /\ UNCHANGED warnings

FetchLeaf(top, key) ==
    /\ ~IsFolderKey(key)
    /\ \E dataPath \in {GetSecretDataPath(LeafSecretPath(top.path, key))} :
          \E ans \in {StoreRead(dataPath)} :
             \E ok \in Outcomes(ans.ok) :
                LeafReturned(top.path \o "/" \o key, dataPath, ans, ok)
    /\ stack' = SetTop([top EXCEPT !.i = @ + 1])

LeafFrame(top) == HasKey(top) /\ FetchLeaf(top, top.keys[top.i + 1])

\* The loop body for any other key: fetch the secret, or warn and continue.
PullLeaf ==
    /\ pc = "walk" /\ Len(stack) > 0
    /\ LeafFrame(Top)
    /\ UNCHANGED <<engine, basePath, store, files, dirs, pc, todo, queue, dryRun,
                   result, sink, term, fn>>

\* A variant of TraversalComplete: the write loop starts when any call of
\* the helper returns.
TraversalCompleteEarly(depth) == TRUE

\* The write loop of PullSecretsToFiles starts when the outermost call of
\* the helper has returned.
TraversalComplete(depth) == depth = 1

\* The loop is over: return to the caller; the outermost return starts the
\* write loop of PullSecretsToFiles.
PullReturn ==
    /\ pc = "walk" /\ Len(stack) > 0
    /\ Top.listed /\ Top.i = Len(Top.keys)
    /\ stack' = SubSeq(stack, 1, Len(stack) - 1)
    /\ IF TraversalComplete(Len(stack))
       THEN pc' = "write" /\ todo' = DOMAIN secrets
       ELSE UNCHANGED <<pc, todo>>
    /\ UNCHANGED <<engine, basePath, store, files, dirs, secrets, queue, dryRun,
                   result, reqs, warnings, sink, term, hist, fn>>

FileWritten(secretPath, filePath, can, ok) ==
    /\ hist' = Charge(ok, can)
    /\ IF ok
       THEN /\ files' = [f \in DOMAIN files \cup {filePath} |->
                           IF f = filePath THEN YamlMarshal(secrets[secretPath])
                           ELSE files[f]]
            /\ UNCHANGED warnings
       ELSE /\ warnings' = Append(warnings, [kind |-> "write", path |-> secretPath])
            /\ UNCHANGED files

WriteSecret(secretPath, fp) ==
    \E dir \in {PathDir(fp.filePath)} :
       \E made \in {fp.ok /\ MkdirAllOk(dir)} :
          /\ dirs' = IF made THEN dirs \cup Ancestors(dir) ELSE dirs
          /\ \E can \in {made /\ fp.filePath \notin dirs} :
                \E ok \in Outcomes(can) : FileWritten(secretPath, fp.filePath, can, ok)

\* writeSecretToFile for one entry of the map (Go ranges over it in no
\* particular order): create the directories, write the YAML.
PullWrite ==
    /\ pc = "write"
    /\ \E secretPath \in todo :
          /\ todo' = todo \ {secretPath}
          /\ WriteSecret(secretPath, SecretFilePath(secretPath, basePath, OutputDir))
    /\ UNCHANGED <<engine, basePath, store, pc, stack, secrets, queue, dryRun, result,
                   reqs, sink, term, fn>>

\* PullSecretsToFiles returns nil.
PullDone ==
    /\ pc = "write" /\ todo = {}
    /\ pc' = "idle"
    /\ result' = [result EXCEPT !.pull = "ok"]
    /\ UNCHANGED <<engine, basePath, store, files, dirs, stack, secrets, todo, queue,
                   dryRun, reqs, warnings, sink, term, hist, fn>>

(***************************************************************************)
(* A local edit between the commands (the README's "Edit files" step).     *)
(***************************************************************************)
EditFile(f, text, dir) ==
    /\ f \notin dirs /\ MkdirAllOk(dir)
    /\ files' = [g \in DOMAIN files \cup {f} |-> IF g = f THEN text ELSE files[g]]
    /\ dirs' = dirs \cup Ancestors(dir)

LocalEdit ==
    /\ pc = "idle" /\ result.push = "none" /\ hist.nedit < MaxEdit
    /\ \E f \in DOMAIN files \cup NewFiles :
          \E text \in EditTextsFor(f) : EditFile(f, text, PathDir(f))
    /\ hist' = [hist EXCEPT !.nedit = @ + 1]
    /\ UNCHANGED <<engine, basePath, store, pc, stack, secrets, todo, queue, dryRun,
                   result, reqs, warnings, sink, term, fn>>

(***************************************************************************)
(* Push: PushSecretsFromFiles.                                             *)
(***************************************************************************)
Base == PushBase(OutputDir, basePath)

Exists(path) == Clean(path) \in dirs \cup DOMAIN files

\* A variant of ChecksPass that leaves out the check of the path's shape.
ChecksPassUnvalidated(base) == Exists(base.baseDir)

\* The checks before the walk: the shape of the path, then os.Stat(baseDir).
ChecksPass(base) == base.ok /\ Exists(base.baseDir)

PushStart ==
    /\ pc = "idle" /\ result.push = "none"
    /\ \E d \in BOOLEAN : dryRun' = d
    /\ \E base \in {Base} :
          IF ChecksPass(base)
          THEN /\ pc' = "push"
               /\ queue' = WalkOrder(base.baseDir)
               /\ UNCHANGED result
          ELSE /\ pc' = "done"
               /\ result' = [result EXCEPT !.push = "error"]
               /\ UNCHANGED queue
    /\ UNCHANGED <<engine, basePath, store, files, dirs, stack, secrets, todo, reqs,
                   warnings, sink, term, hist, fn>>

Entry == Head(queue)

IsContentFile(e) == ~e.isDir /\ HasSuffix(e.path, ".yaml")

\* os.ReadFile and yaml.Unmarshal of the file the walk is at.
Decode(e) == YamlUnmarshal(files[Clean(e.path)])

\* The vault path of the file the walk is at.
EntryVaultPath(e, base) == FileVaultPath(e.path, base.baseDir, base.kvEngine, base.subPath)

\* The walk callback: "Skip directories and non-YAML files".
PushSkip ==
    /\ pc = "push" /\ Len(queue) > 0 /\ ~IsContentFile(Entry)
    /\ queue' = Tail(queue)
    /\ UNCHANGED <<engine, basePath, store, files, dirs, pc, stack, secrets, todo,
                   dryRun, result, reqs, warnings, sink, term, hist, fn>>

BadFile(e) == IsContentFile(e) /\ (~Decode(e).ok \/ ~EntryVaultPath(e, Base).ok)

\* The walk callback returns an error before any request: the YAML does not
\* parse, or the relative path cannot be computed.  filepath.Walk stops.
PushBadFile ==
    /\ pc = "push" /\ Len(queue) > 0 /\ BadFile(Entry)
    /\ pc' = "done"
    /\ result' = [result EXCEPT !.push = "error"]
    /\ UNCHANGED <<engine, basePath, store, files, dirs, stack, secrets, todo, queue,
                   dryRun, reqs, warnings, sink, term, hist, fn>>

\* A variant of TakesDryRunBranch: the callback always writes.
NeverDryRunBranch(flag) == FALSE

\* "if dryRun {": which branch the callback takes for a decoded file.
TakesDryRunBranch(flag) == flag

\* detectDiffTool's order of preference.
DiffTools == <<"delta", "difftastic", "diff-so-fancy">>

\* The preview before any diff is shown, with the tools of path on PATH.
Terminal(path) == [path |-> path, detected |-> FALSE, tool |-> "", out |-> <<>>]

\* The first tool of DiffTools, from the i-th on, that exec.LookPath finds.
RECURSIVE FirstFound(_, _)
FirstFound(path, i) ==
    IF i > Len(DiffTools) THEN ""
    ELSE IF DiffTools[i] \in path THEN DiffTools[i]
    ELSE FirstFound(path, i + 1)

\* detectDiffTool: the look-up is done once, its result kept in diffTool.
detectDiffTool(t) ==
    IF t.detected THEN t
    ELSE [t EXCEPT !.detected = TRUE, !.tool = FirstFound(t.path, 1)]

\* fmt.Print(diffContent)
Printed(t, diffContent) ==
    [t EXCEPT !.out = Append(@, [via |-> "print", text |-> diffContent, ok |-> TRUE])]

\* cmd.Run() of the tool with diffContent on its standard input.
Ran(t, diffContent, ok) ==
    [t EXCEPT !.out = Append(@, [via |-> t.tool, text |-> diffContent, ok |-> ok])]

\* The cases of outputDiff's switch that build a command.
HasCommand(tool) == tool \in {"delta", "difftastic", "diff-so-fancy"}

\* What cmd.Run() may return: no command is run without a tool.
RunOutcomes(tool) == IF HasCommand(tool) THEN BOOLEAN ELSE {TRUE}

\* A variant of FallsBack: a failed tool is not followed by the plain text.
NeverFallsBack(ok) == FALSE

\* "if err := cmd.Run(); err != nil": the plain text follows a failed tool.
FallsBack(ok) == ~ok

OutputWith(t, diffContent, ok) ==
    IF ~HasCommand(t.tool) THEN Printed(t, diffContent)
    ELSE IF FallsBack(ok) THEN Printed(Ran(t, diffContent, ok), diffContent)
    ELSE Ran(t, diffContent, ok)

\* outputDiff(diffContent)
outputDiff(diffContent) ==
    \E t \in {detectDiffTool(term)} :
       \E ok \in RunOutcomes(t.tool) : term' = OutputWith(t, diffContent, ok)

\* "if diffOutput != "" { outputDiff(diffOutput) }"
Emit(diffOutput) ==
    IF diffOutput # ""
    THEN sink' = Append(sink, diffOutput) /\ outputDiff(diffOutput)
    ELSE UNCHANGED <<sink, term>>

DiffReturned(vaultPath, newData, dataPath, ok, got) ==
    /\ reqs' = Append(reqs, Req("read", dataPath, ok, vaultPath, <<>>, got.data))
    /\ Emit(DryRunDiff(vaultPath, got, newData))

\* showDryRunDiff(vaultPath, newData): a GetSecret that fails leaves nothing
\* to compare with.
showDryRunDiff(vaultPath, newData) ==
    \E dataPath \in {GetSecretDataPath(vaultPath)} :
       \E ans \in {StoreRead(dataPath)} :
          \E ok \in Outcomes(ans.ok) :
             /\ hist' = Charge(ok, ans.ok)
             /\ DiffReturned(vaultPath, newData, dataPath, ok,
                             IF ok THEN ans ELSE [ok |-> FALSE, data |-> NoData])

DiffEntry(e) ==
    /\ IsContentFile(e)
    /\ \E dec \in {Decode(e)}, vp \in {EntryVaultPath(e, Base)} :
          dec.ok /\ vp.ok /\ showDryRunDiff(vp.vaultPath, dec.data)

\* showDryRunDiff: read the existing secret (a failure means "new file"),
\* build the diff, hand it to outputDiff when it is not empty; returns nil.
PushDiff ==
    /\ pc = "push" /\ Len(queue) > 0 /\ TakesDryRunBranch(dryRun)
    /\ DiffEntry(Entry)
    /\ queue' = Tail(queue)
    /\ UNCHANGED <<engine, basePath, store, files, dirs, pc, stack, secrets, todo,
                   dryRun, result, warnings, fn>>

\* A variant of WalkContinuesAfterPut: the walk goes on whatever the write
\* returned.
WalkAlwaysContinues(ok) == TRUE

\* Whether the walk goes on to the next file after a write (only when the
\* write succeeded: PutSecret's error is the callback's return value).
WalkContinuesAfterPut(ok) == ok

PutReturned(vaultPath, newData, dataPath, can, ok) ==
    /\ reqs' = Append(reqs, Req("write", dataPath, ok, vaultPath, <<>>, newData))
    /\ hist' = Charge(ok, can)
    /\ store' = IF ok THEN StoreAfterWrite(dataPath, newData) ELSE store
    /\ IF WalkContinuesAfterPut(ok)
       THEN queue' = Tail(queue) /\ UNCHANGED <<pc, result>>
       ELSE /\ pc' = "done"
            /\ result' = [result EXCEPT !.push = "error"]
            /\ UNCHANGED queue

\* PutSecret(vaultPath, newData).
PutSecret(vaultPath, newData) ==
    \E dataPath \in {PutSecretDataPath(vaultPath)} :
       \E can \in {StoreAccepts(dataPath)} :
          \E ok \in Outcomes(can) : PutReturned(vaultPath, newData, dataPath, can, ok)

PutEntry(e) ==
    /\ IsContentFile(e)
    /\ \E dec \in {Decode(e)}, vp \in {EntryVaultPath(e, Base)} :
          dec.ok /\ vp.ok /\ PutSecret(vp.vaultPath, dec.data)

\* PutSecret: write the payload; the first failure ends the walk.
PushPut ==
    /\ pc = "push" /\ Len(queue) > 0 /\ ~TakesDryRunBranch(dryRun)
    /\ PutEntry(Entry)
    /\ UNCHANGED <<engine, basePath, files, dirs, stack, secrets, todo, dryRun,
                   warnings, sink, term, fn>>

\* filepath.Walk has visited everything: PushSecretsFromFiles returns nil.
PushDone ==
    /\ pc = "push" /\ Len(queue) = 0
    /\ pc' = "done"
    /\ result' = [result EXCEPT !.push = "ok"]
    /\ UNCHANGED <<engine, basePath, store, files, dirs, stack, secrets, todo, queue,
                   dryRun, reqs, warnings, sink, term, hist, fn>>

(***************************************************************************)
(* The synchronisation engine: one Pull, local edits, one Push.            *)
(***************************************************************************)
Init ==
    /\ engine \in Engines
    /\ basePath \in BasePaths(engine)
    /\ \E S \in SUBSET StorePaths : store = [lp \in S |-> PayloadOf(lp)]
    /\ files = [f \in {} |-> ""]
    /\ dirs = {"."}
    /\ pc = "idle"
    /\ stack = <<>>
    /\ secrets = [k \in {} |-> NoData]
    /\ todo = {}
    /\ queue = <<>>
    /\ dryRun = FALSE
    /\ result = [pull |-> "none", push |-> "none", errPath |-> ""]
    /\ reqs = <<>>
    /\ warnings = <<>>
    /\ sink = <<>>
    /\ term = Terminal({})
    /\ hist = [nfail |-> 0, nedit |-> 0]
    /\ fn = NoFn

Next ==
    \/ PullStart \/ PullList \/ PullFolder \/ PullLeaf \/ PullReturn
    \/ PullWrite \/ PullDone
    \/ LocalEdit
    \/ PushStart \/ PushSkip \/ PushBadFile \/ PushDiff \/ PushPut \/ PushDone

Spec == Init /\ [][Next]_vars

(***************************************************************************)
(* The path translations on their own: the path of a secret to the file    *)
(* Pull writes and back to the path Push writes to, and the metadata-to-   *)
(* data conversion of GetSecret and of PutSecret.  The engine is at rest.  *)
(***************************************************************************)
AtRest ==
    /\ engine = "kv"
    /\ basePath = "kv/metadata"
    /\ store = [lp \in {} |-> NoData]
    /\ files = [f \in {} |-> ""]
    /\ dirs = {"."}
    /\ pc = "idle"
    /\ stack = <<>>
    /\ secrets = [k \in {} |-> NoData]
    /\ todo = {}
    /\ queue = <<>>
    /\ dryRun = FALSE
    /\ result = [pull |-> "none", push |-> "none", errPath |-> ""]
    /\ reqs = <<>>
    /\ warnings = <<>>
    /\ sink = <<>>
    /\ hist = [nfail |-> 0, nedit |-> 0]

\* The inputs of the translations: engine names, sub-paths ("" for none),
\* leaf names and output directories.
SubPaths == {"", "app", "app/team", "metadata"}

Leaves == {"db", "db/creds", "x.yaml", "metadata/db"}

OutputDirs == {"./vault-secrets", "/out", "out/", "."}

\* The inputs of the conversion.
ConvertPaths ==
    {"kv/metadata", "kv/metadata/app", "kv/metadata/app/db", "kv/metadata/",
     "secret/metadata", "secret/metadata/db", "kv/data/app/db", "kv/data",
     "kv/metadata/metadata", "kv/app/metadata", "metadata/app", "kv", ""}

\* <engine>/metadata[/<subpath>]
MetadataBase(e, subPath) ==
    IF subPath = "" THEN e \o "/metadata" ELSE e \o "/metadata/" \o subPath

NoFile == [ok |-> FALSE, filePath |-> ""]

NoBack == [ok |-> FALSE, vaultPath |-> ""]

TranslateInputs ==
    {[op |-> "translate", step |-> 0,
      arg |-> [base |-> MetadataBase(e, sp), path |-> MetadataBase(e, sp) \o "/" \o l,
               subPath |-> sp, leaf |-> l, dir |-> d],
      res |-> [file |-> NoFile, back |-> NoBack]] :
        e \in Engines, sp \in SubPaths, l \in Leaves, d \in OutputDirs}

ConvertInputs ==
    {[op |-> o, step |-> 0, arg |-> [path |-> p], res |-> ""] :
        o \in {"get", "put"}, p \in ConvertPaths}

InitPath == AtRest /\ term = Terminal({}) /\ fn \in TranslateInputs \cup ConvertInputs

\* writeSecretToFile's mapping of arg.path, pulled from arg.base into arg.dir.
RemoteToLocal ==
    /\ fn.op = "translate" /\ fn.step = 0
    /\ fn' = [fn EXCEPT !.step = 1,
                        !.res.file = SecretFilePath(fn.arg.path, fn.arg.base, fn.arg.dir)]
    /\ UNCHANGED mainVars

BackFrom(file, base) ==
    IF file.ok /\ base.ok
    THEN FileVaultPath(file.filePath, base.baseDir, base.kvEngine, base.subPath)
    ELSE NoBack

\* PushSecretsFromFiles' mapping of that file, pushed from arg.dir to arg.base.
LocalToRemote ==
    /\ fn.op = "translate" /\ fn.step = 1
    /\ fn' = [fn EXCEPT !.step = 2,
                        !.res.back = BackFrom(fn.res.file, PushBase(fn.arg.dir, fn.arg.base))]
    /\ UNCHANGED mainVars

\* GetSecret's conversion of arg.path.
GetConvert ==
    /\ fn.op = "get" /\ fn.step = 0
    /\ fn' = [fn EXCEPT !.step = 1, !.res = GetSecretDataPath(fn.arg.path)]
    /\ UNCHANGED mainVars

\* PutSecret's conversion of arg.path.
PutConvert ==
    /\ fn.op = "put" /\ fn.step = 0
    /\ fn' = [fn EXCEPT !.step = 1, !.res = PutSecretDataPath(fn.arg.path)]
    /\ UNCHANGED mainVars

NextPath == RemoteToLocal \/ LocalToRemote \/ GetConvert \/ PutConvert

SpecPath == InitPath /\ [][NextPath]_vars

(***************************************************************************)
(* The dry-run diff on its own: showDryRunDiff from what GetSecret         *)
(* returned, and generateUnifiedDiff on two texts.                         *)
(***************************************************************************)
MaxLines == 2   \* lines of a text given to generateUnifiedDiff

PayloadKeys == {"a", "b"}

Scalars ==
    {[t |-> "str", v |-> "1"], [t |-> "num", v |-> "1"], [t |-> "int", v |-> "1"],
     [t |-> "str", v |-> "x"]}

Payloads == UNION {[K -> Scalars] : K \in SUBSET PayloadKeys}

Labels == {"p/x"}

TextLines == {"a", "b", ""}

Texts ==
    {Join(s, "\n") : s \in UNION {[1..n -> TextLines] : n \in 0..MaxLines}}
    \cup {YamlMarshal(p) : p \in Payloads}

Absent == [ok |-> FALSE, data |-> NoData]

DryRunInputs ==
    {[op |-> "dryrun", step |-> 0, arg |-> [label |-> l, got |-> g, new |-> n], res |-> ""] :
        l \in Labels, g \in {Absent} \cup {[ok |-> TRUE, data |-> p] : p \in Payloads},
        n \in Payloads}

UnifiedInputs ==
    {[op |-> "unified", step |-> 0, arg |-> [existing |-> a, new |-> b, filename |-> l],
      res |-> ""] : a \in Texts, b \in Texts, l \in Labels}

\* The previews a dry run may meet: any set of the tools on PATH before the
\* first look-up, and any result an earlier look-up of the process has kept.
Terminals ==
    {Terminal(P) : P \in SUBSET {"delta", "difftastic", "diff-so-fancy"}}
    \cup {[Terminal({}) EXCEPT !.detected = TRUE, !.tool = t] :
             t \in {"", "delta", "difftastic", "diff-so-fancy"}}

InitDiff ==
    /\ AtRest
    /\ \/ fn \in DryRunInputs /\ term \in Terminals
       \/ fn \in UnifiedInputs /\ term = Terminal({})

Rendered(diffOutput) ==
    /\ fn' = [fn EXCEPT !.step = 1, !.res = diffOutput]
    /\ Emit(diffOutput)

\* showDryRunDiff once GetSecret has returned arg.got.
RenderDryRun ==
    /\ fn.op = "dryrun" /\ fn.step = 0
    /\ Rendered(DryRunDiff(fn.arg.label, fn.arg.got, fn.arg.new))
    /\ UNCHANGED <<engine, basePath, store, files, dirs, pc, stack, secrets, todo, queue,
                   dryRun, result, reqs, warnings, hist>>

\* generateUnifiedDiff(arg.existing, arg.new, arg.filename).
RenderUnified ==
    /\ fn.op = "unified" /\ fn.step = 0
    /\ fn' = [fn EXCEPT !.step = 1,
                        !.res = generateUnifiedDiff(fn.arg.existing, fn.arg.new,
                                                    fn.arg.filename)]
    /\ UNCHANGED mainVars

NextDiff == RenderDryRun \/ RenderUnified

SpecDiff == InitDiff /\ [][NextDiff]_vars

(***************************************************************************)
(* generateUnifiedDiff on texts long enough for a hunk to end and another  *)
(* to begin.  A line that is not empty carries its 0-based index, so that  *)
(* the place of a rendered line can be read off the diff.                  *)
(***************************************************************************)
MaxHunkLines == 5   \* lines of a text

\* The line of kind k at position i: empty, or the kind followed by the index.
NumberedLine(k, i) == IF k = "" THEN "" ELSE k \o Itoa(i - 1)

\* The texts of at most MaxHunkLines lines whose lines are of the given kinds.
NumberedTexts(kinds) ==
    UNION {{Join([i \in 1..n |-> NumberedLine(k[i], i)], "\n") : k \in [1..n -> kinds]} :
             n \in 0..MaxHunkLines}

\* Old lines are "s<i>" or empty; new lines are the same "s<i>", a different
\* "n<i>", or empty.
HunkInputs ==
    {[op |-> "unified", step |-> 0, arg |-> [existing |-> a, new |-> b, filename |-> l],
      res |-> ""] :
        a \in NumberedTexts({"s", ""}), b \in NumberedTexts({"s", "n", ""}), l \in Labels}

InitHunk == AtRest /\ term = Terminal({}) /\ fn \in HunkInputs

SpecHunk == InitHunk /\ [][RenderUnified]_vars

(***************************************************************************)
(* Properties of the path translations (SpecPath).                         *)
(***************************************************************************)
\* C1: Path round trip.  For every engine name, optional sub-path and leaf
\* name (of one or more segments), the file writeSecretToFile chooses for
\* the secret path p = <engine>/metadata[/<subpath>]/<leaf>, pulled from
\* base <engine>/metadata[/<subpath>] into directory D, is translated by
\* PushSecretsFromFiles (input directory D, same base) back to exactly p.
C1_PathRoundTrip ==
    (fn.op = "translate" /\ fn.step = 2) =>
        /\ fn.res.file.ok
        /\ fn.res.back.ok
        /\ fn.res.back.vaultPath = fn.arg.path

\* C1's case: a leaf of two segments under a sub-path has made the round trip.
C1_Witness ==
    /\ fn.op = "translate" /\ fn.step = 2
    /\ fn.arg.subPath = "app/team" /\ fn.arg.leaf = "db/creds"
    /\ fn.arg.dir = "./vault-secrets"
    /\ fn.res.file.filePath = "vault-secrets/app/team/db/creds.yaml"
    /\ fn.res.back.vaultPath = fn.arg.path

\* C9: Metadata/data symmetry.  For every path of at least two segments
\* whose segment 1 is "metadata" (a path of exactly two segments included),
\* the conversion of GetSecret and of PutSecret returns a path with the same
\* number of segments, equal to the input but for segment 1, which is
\* "data"; any other path is returned unchanged.
C9_MetadataDataSymmetry ==
    (fn.op \in {"get", "put"} /\ fn.step = 1) =>
        LET parts == Split(fn.arg.path, "/")
            out   == Split(fn.res, "/")
        IN IF Len(parts) >= 2 /\ parts[2] = "metadata"
           THEN /\ Len(out) = Len(parts)
                /\ out = [parts EXCEPT ![2] = "data"]
           ELSE fn.res = fn.arg.path

\* C9's case: the conversion has been applied to a path of exactly two
\* segments whose segment 1 is "metadata".
C9_Witness ==
    /\ fn.op \in {"get", "put"} /\ fn.step = 1
    /\ fn.arg.path = "kv/metadata"

(***************************************************************************)
(* Properties of the dry-run diff (SpecDiff).                              *)
(***************************************************************************)
\* C7: Diff idempotence.  Diffing a payload against itself (the existing
\* payload fetched successfully and equal to the new one) reports no
\* change: generateUnifiedDiff returns the empty string for equal texts, and
\* the dry run hands nothing to the preview sink.
C7_DiffIdempotence ==
    /\ (fn.op = "unified" /\ fn.step = 1 /\ fn.arg.existing = fn.arg.new) => fn.res = ""
    /\ (fn.op = "dryrun" /\ fn.step = 1 /\ fn.arg.got.ok
        /\ JsonRoundTrip(fn.arg.got.data) = JsonRoundTrip(fn.arg.new))
       => (fn.res = "" /\ sink = <<>>)

\* C7's case: the dry run has compared a payload of two keys, one of them a
\* number, with itself as decoded from its own YAML.
C7_Witness ==
    /\ fn.op = "dryrun" /\ fn.step = 1 /\ fn.arg.got.ok
    /\ fn.arg.got.data = [a |-> [t |-> "num", v |-> "1"], b |-> [t |-> "str", v |-> "x"]]
    /\ fn.arg.new = [a |-> [t |-> "int", v |-> "1"], b |-> [t |-> "str", v |-> "x"]]
    /\ sink = <<>>

\* C8: New-secret diff.  When the existing payload is absent, the text is
\* the five header lines "diff --git a/<label> b/<label>", "new file mode
\* 100644", "index 0000000..<hash>", "--- /dev/null", "+++ b/<label>", then
\* exactly one "+"-prefixed line for each line of the encoded new payload
\* and no other body line.
C8_NewSecretDiff ==
    (fn.op = "dryrun" /\ fn.step = 1 /\ ~fn.arg.got.ok) =>
        LET label   == fn.arg.label
            newYaml == YamlMarshal(fn.arg.new)
            lines   == Split(TrimSuffix(newYaml, "\n"), "\n")
            header  == <<"diff --git a/" \o label \o " b/" \o label,
                         "new file mode 100644",
                         "index 0000000.." \o generateShortHash(newYaml),
                         "--- /dev/null",
                         "+++ b/" \o label>>
        IN /\ fn.res = ConcatLines(header \o [j \in DOMAIN lines |-> "+" \o lines[j]])
           /\ sink = <<fn.res>>

\* C8's case: the dry run has rendered the payload {"a": "1"} as a new secret.
C8_Witness ==
    /\ fn.op = "dryrun" /\ fn.step = 1 /\ ~fn.arg.got.ok
    /\ fn.arg.new = [a |-> [t |-> "str", v |-> "1"]]
    /\ Len(sink) = 1

\* C12: The preview fallback chain never suppresses a diff.  Every diff
\* text a dry run computes that is not empty reaches the output: either the
\* detected tool is run with the text on its input and succeeds, or (no
\* tool detected, or the tool's run fails) the text itself is printed; and
\* a text is never shown by both a successful tool and a print.
C12_DiffNeverSuppressed ==
    (fn.op = "dryrun" /\ fn.step = 1) =>
        LET shown == {j \in DOMAIN term.out :
                        /\ term.out[j].text = fn.res
                        /\ term.out[j].ok
                        /\ term.out[j].via \in {"print", term.tool}}
        IN /\ term.detected = (fn.res # "" \/ term.detected)
           /\ Cardinality(shown) = IF fn.res # "" THEN 1 ELSE 0
           /\ \A j \in DOMAIN term.out :
                 /\ term.out[j].via # "print" => HasCommand(term.tool)
                 /\ (term.out[j].via = "print" /\ HasCommand(term.tool))
                       => (j > 1 /\ ~term.out[j - 1].ok)

\* C12's case: the tool found on PATH has failed on a diff, and the text
\* was printed after it.
C12_Witness ==
    /\ fn.op = "dryrun" /\ fn.step = 1 /\ fn.res # ""
    /\ term.path = {"difftastic", "diff-so-fancy"} /\ term.tool = "difftastic"
    /\ Len(term.out) = 2
    /\ term.out[1] = [via |-> "difftastic", text |-> fn.res, ok |-> FALSE]
    /\ term.out[2] = [via |-> "print", text |-> fn.res, ok |-> TRUE]

(***************************************************************************)
(* Properties of the hunks of a diff (SpecHunk).  The hunks are read from  *)
(* the text generateUnifiedDiff returned.                                  *)
(***************************************************************************)
\* The lines of a rendered diff.
DiffLinesOf(text) == SubSeq(Split(text, "\n"), 1, Len(Split(text, "\n")) - 1)

\* The positions of the hunk headers among the lines.
HunkHeads(lines) == {k \in DOMAIN lines : HasPrefix(lines[k], "@@")}

\* The position of the last body line of the hunk whose header is at k.
HunkEnd(lines, k) ==
    IF \E h \in HunkHeads(lines) : h > k
    THEN (CHOOSE h \in HunkHeads(lines) :
             h > k /\ \A g \in HunkHeads(lines) : g > k => h <= g) - 1
    ELSE Len(lines)

HunkBody(lines, k) == SubSeq(lines, k + 1, HunkEnd(lines, k))

\* The number a string of decimal digits writes.
RECURSIVE Atoi(_)
Atoi(str) ==
    IF str = "" THEN 0
    ELSE Atoi(SubSeq(str, 1, Len(str) - 1)) * 10
         + (IndexFrom("0123456789", SubSeq(str, Len(str), Len(str)), 1) - 1)

\* <<s, oc>> of a header "@@ -s,oc +s,nc @@".
HunkOldRange(header) ==
    LET f == Split(SubSeq(Split(header, " ")[2], 2, Len(Split(header, " ")[2])), ",")
    IN <<Atoi(f[1]), Atoi(f[2])>>

\* The number of " "-prefixed lines at the start of a hunk's body.
RECURSIVE LeadingContext(_)
LeadingContext(body) ==
    IF Len(body) = 0 \/ ~HasPrefix(body[1], " ") THEN 0
    ELSE 1 + LeadingContext(Tail(body))

\* C17: Hunk shape.  For two texts that differ, every hunk has at most 3
\* context lines before its first changed line and at most 3 after its last
\* one, and its header "@@ -s,oc +s,nc @@" has s the 1-based index of the
\* hunk's first line, oc the number of body lines prefixed " " or "-", and
\* nc the number of body lines prefixed " " or "+".  (The index of the first
\* line is read from the line when it is not empty.)
C17_HunkShape ==
    (fn.op = "unified" /\ fn.step = 1 /\ fn.arg.existing # fn.arg.new) =>
        LET lines == DiffLinesOf(fn.res)
        IN \A k \in HunkHeads(lines) :
              LET body == HunkBody(lines, k)
                  start == HunkOldRange(lines[k])[1]
              IN /\ Len(body) > 0
                 /\ LeadingContext(body) <= 3
                 /\ TrailingContext(body) <= 3
                 /\ lines[k] = "@@ -" \o Itoa(start) \o ","
                                  \o Itoa(Len(SelectSeq(body, IsOldLine)))
                                  \o " +" \o Itoa(start) \o ","
                                  \o Itoa(Len(SelectSeq(body, IsNewLine))) \o " @@"
                 /\ Len(body[1]) >= 3
                       => start = Atoi(SubSeq(body[1], 3, Len(body[1]))) + 1

\* C17's case: the new text has a changed line more than 3 lines below the
\* end of the old text, the lines between being empty.
C17_Witness ==
    /\ fn.op = "unified" /\ fn.step = 1
    /\ fn.arg.existing = "s0" /\ fn.arg.new = "s0\n\n\n\nn4"
    /\ Len(DiffLinesOf(fn.res)) = 6
    /\ DiffLinesOf(fn.res)[6] = "+n4"

\* C18: Hunks of one diff do not overlap.  The hunks cover pairwise
\* disjoint, strictly increasing ranges of line indices, so no line of the
\* old text is rendered, as context or as a change, in more than one hunk.
C18_HunksDisjoint ==
    (fn.op = "unified" /\ fn.step = 1) =>
        LET lines == DiffLinesOf(fn.res)
        IN \A k1, k2 \in HunkHeads(lines) :
              k1 < k2 =>
                 /\ HunkOldRange(lines[k2])[1]
                       >= HunkOldRange(lines[k1])[1] + HunkOldRange(lines[k1])[2]
                 /\ \A p \in k1 + 1 .. HunkEnd(lines, k1), q \in k2 + 1 .. HunkEnd(lines, k2) :
                       (IsOldLine(lines[p]) /\ Len(lines[p]) >= 3) => lines[p] # lines[q]

\* C18's case: a diff of two hunks, the changes being 4 lines apart.
C18_Witness ==
    /\ fn.op = "unified" /\ fn.step = 1
    /\ fn.arg.existing = "s0\ns1\ns2\ns3\ns4" /\ fn.arg.new = "n0\ns1\ns2\ns3\nn4"
    /\ Cardinality(HunkHeads(DiffLinesOf(fn.res))) = 2

\* C19: No positional difference is dropped.  For every index at which the
\* old and the new text differ, the diff has a "-" line carrying the old
\* line when the index is within the old text and a "+" line carrying the
\* new line when it is within the new text, also when that line is empty.
C19_NoDifferenceDropped ==
    (fn.op = "unified" /\ fn.step = 1) =>
        LET old   == Split(fn.arg.existing, "\n")
            new   == Split(fn.arg.new, "\n")
            lines == DiffLinesOf(fn.res)
            body  == {lines[k] : k \in DOMAIN lines \ (1..4 \cup HunkHeads(lines))}
        IN \A i \in 0 .. (max(Len(old), Len(new)) - 1) :
              LineAt(old, i) # LineAt(new, i) =>
                 /\ i < Len(old) => ("-" \o old[i + 1]) \in body
                 /\ i < Len(new) => ("+" \o new[i + 1]) \in body

\* C19's case: a line was added to a text that ends with a newline, so the
\* empty last line of the old text stands against the added line.
C19_Witness ==
    /\ fn.op = "unified" /\ fn.step = 1
    /\ fn.arg.existing = "s0\n" /\ fn.arg.new = "s0\nn1\n"
    /\ "+n1" \in {DiffLinesOf(fn.res)[k] : k \in DOMAIN DiffLinesOf(fn.res)}

(***************************************************************************)
(* Properties of the synchronisation engine (Spec).                        *)
(***************************************************************************)
\* C2: Directory mirroring.  A Pull from base <engine>/metadata into the
\* output directory D, every request being answered, writes every leaf that
\* sits inside a store folder, at <engine>/metadata/<folder>/.../<name>, to
\* D/<folder>/.../<name>.yaml: the local tree has the store's folder
\* segments and no other segment.
C2_DirectoryMirroring ==
    (/\ basePath = engine \o "/metadata"
     /\ pc = "idle" /\ result.pull # "none" /\ result.push = "none"
     /\ hist.nfail = 0 /\ hist.nedit = 0)
    => /\ \A lp \in DOMAIN store :
            IndexFrom(lp, "/", 1) > 0 =>
                /\ PathJoin(OutputDir, lp \o ".yaml") \in DOMAIN files
                /\ files[PathJoin(OutputDir, lp \o ".yaml")] = YamlMarshal(store[lp])
       /\ \A f \in DOMAIN files :
            \E lp \in DOMAIN store : f = PathJoin(OutputDir, lp \o ".yaml")

\* C2's case: a Pull from <engine>/metadata has returned, with no request
\* failing for a transient reason, from a store that holds a leaf in a folder.
C2_Witness ==
    /\ basePath = engine \o "/metadata"
    /\ pc = "idle" /\ result.pull # "none" /\ result.push = "none"
    /\ hist.nfail = 0 /\ hist.nedit = 0
    /\ "app/db" \in DOMAIN store

\* C3: End-to-end pull/push cycle.  When every request of a Pull into an
\* empty directory succeeded, a dry-run Push of the same directory to the
\* same base, with no local edit and no store change in between, hands no
\* diff to the preview sink: every pulled file is read back, successfully,
\* at the data path its secret was pulled from, and compares equal.
C3_PullPushCycle ==
    (/\ result.pull = "ok" /\ warnings = <<>>
     /\ hist.nfail = 0 /\ hist.nedit = 0
     /\ pc \in {"push", "done"} /\ dryRun)
    => /\ sink = <<>>
       /\ \A i \in DOMAIN reqs : reqs[i].ok
       /\ pc = "done" =>
            /\ result.push = "ok"
            /\ \A sp \in DOMAIN secrets :
                 LET reads == {i \in DOMAIN reqs : reqs[i].op = "read" /\ reqs[i].for = sp}
                 IN /\ Cardinality(reads) = 2
                    /\ \A i, j \in reads :
                         reqs[i].path = reqs[j].path /\ reqs[i].data = reqs[j].data

\* C3's case: a dry-run Push has walked the three files of a Pull that met
\* no failure, from a sub-folder as well as from the top of the base.
C3_Witness ==
    /\ result.pull = "ok" /\ warnings = <<>>
    /\ hist.nfail = 0 /\ hist.nedit = 0
    /\ pc = "done" /\ dryRun /\ result.push = "ok"
    /\ Cardinality(DOMAIN secrets) = 3
    /\ Cardinality(DOMAIN files) = 3
    /\ sink = <<>>

\* C4: Dry run never mutates remote state.  In a Push with dryRun = true,
\* whatever the local files and whichever reads succeed or fail, no write
\* request reaches the store, and no step of the Push changes the store.
C4_DryRunNoWrite ==
    [][(pc' \in {"push", "done"} /\ dryRun')
       => /\ store' = store
          /\ \A i \in DOMAIN reqs' : reqs'[i].op # "write"]_vars

\* C4's case: a dry-run Push has finished after reads that succeeded and a
\* read that failed, and has shown a diff.
C4_Witness ==
    /\ pc = "done" /\ dryRun /\ result.push = "ok"
    /\ Len(sink) > 0
    /\ \E i, j \in DOMAIN reqs :
          /\ reqs[i].op = "read" /\ reqs[j].op = "read"
          /\ reqs[i].for = reqs[j].for /\ reqs[i].ok /\ ~reqs[j].ok

\* C5: Non-fatal leaf skip.  If every listing of a Pull succeeds (and every
\* file write does), then whichever set F of the store's leaves under the
\* base path fails to be fetched, the Pull completes without error, has
\* written a file holding the payload of every leaf not in F, and has
\* reported exactly one warning for each leaf in F.
C5_EveryLeafWritten ==
    LET lists  == {i \in DOMAIN reqs : reqs[i].op = "list"}
        base   == Logical(basePath, "metadata").lp
        leaves == {lp \in DOMAIN store : base = "" \/ HasPrefix(lp, base \o "/")}
        name(lp) == engine \o "/metadata/" \o lp
        F      == {lp \in leaves :
                     \E i \in DOMAIN reqs :
                        reqs[i].op = "read" /\ reqs[i].for = name(lp) /\ ~reqs[i].ok}
    IN (/\ pc = "idle" /\ result.pull # "none" /\ result.push = "none" /\ hist.nedit = 0
        /\ \A i \in lists : reqs[i].ok
        /\ \A w \in DOMAIN warnings : warnings[w].kind # "write")
       => /\ result.pull = "ok"
          /\ \A lp \in leaves \ F :
                \E f \in DOMAIN files : files[f] = YamlMarshal(store[lp])
          /\ Len(warnings) = Cardinality(F)

\* C5, over the leaves the listings returned: if every listing of a Pull
\* succeeds (and every file write does), then whichever set F of the listed
\* leaves fails to be fetched, the Pull completes without error, has written
\* a file for every listed leaf not in F and none for a leaf in F, and has
\* reported exactly one warning for each leaf in F.
C5_NonFatalLeafSkip ==
    LET lists  == {i \in DOMAIN reqs : reqs[i].op = "list"}
        listed == UNION {{reqs[i].path \o "/" \o reqs[i].keys[j] :
                            j \in {k \in DOMAIN reqs[i].keys : ~IsFolderKey(reqs[i].keys[k])}} :
                         i \in lists}
        F      == {reqs[i].for : i \in {j \in DOMAIN reqs : reqs[j].op = "read" /\ ~reqs[j].ok}}
        file(l) == SecretFilePath(l, basePath, OutputDir).filePath
    IN (/\ pc = "idle" /\ result.pull # "none" /\ result.push = "none" /\ hist.nedit = 0
        /\ \A i \in lists : reqs[i].ok
        /\ \A w \in DOMAIN warnings : warnings[w].kind # "write")
       => /\ result.pull = "ok"
          /\ F \subseteq listed
          /\ \A l \in listed \ F :
                /\ file(l) \in DOMAIN files
                /\ \E i \in DOMAIN reqs :
                      /\ reqs[i].op = "read" /\ reqs[i].for = l /\ reqs[i].ok
                      /\ files[file(l)] = YamlMarshal(reqs[i].data)
          /\ \A l \in F : file(l) \notin DOMAIN files
          /\ Len(warnings) = Cardinality(F)
          /\ \A l \in F :
                Cardinality({w \in DOMAIN warnings :
                               warnings[w] = [kind |-> "fetch", path |-> l]}) = 1

\* C5's case: a Pull whose listings all succeeded has returned after two
\* leaves failed to be fetched and another was fetched and written.
C5_Witness ==
    /\ pc = "idle" /\ result.pull = "ok" /\ result.push = "none" /\ hist.nedit = 0
    /\ Len(warnings) = 2
    /\ \A w \in DOMAIN warnings : warnings[w].kind = "fetch"
    /\ Cardinality(DOMAIN files) >= 1

\* C6: Push abort on write failure.  In a Push that is not a dry run, the
\* first write that fails ends the Push with an error: it is the last
\* request the store receives, so no request is issued for a file that comes
\* later in the walk; the writes that succeeded before it stay in the store.
C6_PushAbortOnWriteFailure ==
    \A i \in DOMAIN reqs :
        (reqs[i].op = "write" /\ ~reqs[i].ok) =>
            /\ i = Len(reqs)
            /\ pc = "done" /\ result.push = "error"
            /\ Len(queue) > 0 /\ reqs[i].for = EntryVaultPath(Entry, Base).vaultPath
            /\ \A j \in 1..(i - 1) :
                  reqs[j].op = "write" =>
                      /\ reqs[j].ok
                      /\ Logical(reqs[j].path, "data").lp \in DOMAIN store
                      /\ store[Logical(reqs[j].path, "data").lp] = JsonRoundTrip(reqs[j].data)

\* C6's case: a write has failed after another succeeded and before the
\* walk reached the last file.
C6_Witness ==
    /\ pc = "done" /\ result.push = "error" /\ ~dryRun
    /\ Len(reqs) > 0 /\ reqs[Len(reqs)].op = "write" /\ ~reqs[Len(reqs)].ok
    /\ \E j \in DOMAIN reqs : reqs[j].op = "write" /\ reqs[j].ok
    /\ \E k \in 2..Len(queue) : IsContentFile(queue[k])

\* C11: Push precondition failures precede all I/O.  When the metadata path
\* does not have the shape <engine>/metadata[/subpath], or the base directory
\* derived from it does not exist, Push returns an error at once, with
\* dryRun true or false: the walk does not start, so no file is read or
\* decoded, and no request, read or write, reaches the store, then or later.
C11_PreconditionsBeforeIO ==
    [][/\ (/\ pc = "idle" /\ pc' \in {"push", "done"}
           /\ (~Base.ok \/ ~Exists(Base.baseDir)))
          => /\ pc' = "done" /\ result'.push = "error"
             /\ queue' = queue /\ reqs' = reqs /\ store' = store /\ sink' = sink
       /\ (pc = "done" /\ result.push = "error" /\ queue = <<>>)
          => UNCHANGED <<pc, result, queue, reqs, store, sink>>]_vars

\* C11's case: a dry-run Push given a path of the wrong shape has returned
\* its error while the directory holds a file, and no request was issued.
C11_Witness ==
    /\ pc = "done" /\ result.push = "error" /\ dryRun
    /\ ~Base.ok
    /\ DOMAIN files # {}
    /\ reqs = <<>>

\* C13: Pull writes files only after the remote traversal has completed.
\* While the walk is under way no file and no directory has been created;
\* the write loop runs only when every call of the helper has returned and
\* every listing succeeded; a listing that fails, at any depth, ends the Pull
\* with an error that names the path listed, and then no file at all has
\* been written, whatever was fetched before.
C13_WriteAfterTraversal ==
    /\ pc = "walk" => (DOMAIN files = {} /\ dirs = {"."})
    /\ pc = "write" =>
          /\ stack = <<>>
          /\ \A i \in DOMAIN reqs : reqs[i].op = "list" => reqs[i].ok
    /\ (pc = "idle" /\ result.push = "none" /\ hist.nedit = 0) =>
          /\ (\E i \in DOMAIN reqs : reqs[i].op = "list" /\ ~reqs[i].ok)
                => result.pull = "error"
          /\ result.pull = "error" =>
                /\ DOMAIN files = {} /\ dirs = {"."}
                /\ reqs[Len(reqs)].op = "list" /\ ~reqs[Len(reqs)].ok
                /\ result.errPath = reqs[Len(reqs)].path

\* C13's case: the listing of a folder has failed after a leaf was fetched
\* successfully, and the Pull has returned its error.
C13_Witness ==
    /\ pc = "idle" /\ result.pull = "error" /\ result.push = "none" /\ hist.nedit = 0
    /\ Len(stack) = 0 /\ Len(reqs) >= 3
    /\ \E i \in DOMAIN reqs : reqs[i].op = "read" /\ reqs[i].ok
    /\ DOMAIN secrets # {}
    /\ DOMAIN files = {}

\* C14: Push drains the local traversal before mutating the store.  In a
\* Push that is not a dry run no write reaches the store until every content
\* file under the base directory has been read and decoded, so a Push that
\* aborts because a file fails to decode has written nothing.
C14_DrainBeforeWrite ==
    (pc \in {"push", "done"} /\ ~dryRun) =>
        /\ (pc = "push" /\ \E i \in DOMAIN reqs : reqs[i].op = "write")
              => \A k \in DOMAIN queue : ~IsContentFile(queue[k])
        /\ (pc = "done" /\ result.push = "error" /\ Len(queue) > 0 /\ BadFile(Entry))
              => \A i \in DOMAIN reqs : reqs[i].op # "write"

\* C14's case: a Push that is not a dry run has aborted at a file that does
\* not decode, after the file before it in the walk was written to the store.
C14_Witness ==
    /\ pc = "done" /\ ~dryRun /\ result.push = "error"
    /\ Len(queue) > 0 /\ IsContentFile(Entry) /\ ~Decode(Entry).ok
    /\ \E i \in DOMAIN reqs : reqs[i].op = "write" /\ reqs[i].ok

\* C15: Failure propagation.  Apart from the fetch of a leaf's payload during
\* a Pull, every store request that fails (a listing, a read or a write)
\* ends the command that issued it with an error; that includes the read of
\* the existing secret during a dry-run Push.
C15_FailurePropagation ==
    [][(/\ Len(reqs') = Len(reqs) + 1
        /\ ~reqs'[Len(reqs')].ok
        /\ ~(pc = "walk" /\ reqs'[Len(reqs')].op = "read"))
       => /\ pc = "walk" => (pc' = "idle" /\ result'.pull = "error")
          /\ pc = "push" => (pc' = "done" /\ result'.push = "error")]_vars

\* C15's case: a dry-run Push has returned success although the read of a
\* secret the store holds failed; the Pull before it met no failure.
C15_Witness ==
    /\ pc = "done" /\ dryRun /\ result.push = "ok"
    /\ result.pull = "ok" /\ warnings = <<>>
    /\ \E i \in DOMAIN reqs :
          /\ reqs[i].op = "read" /\ ~reqs[i].ok
          /\ Logical(reqs[i].path, "data").lp \in DOMAIN store

\* C16: Remote walk completeness.  When every listing and every read of the
\* walk succeeds, the walk started at a metadata base path returns a mapping
\* with exactly one entry, carrying the leaf's payload, for every leaf of
\* the store below the base path: no leaf is missing, none is fetched twice.
C16_WalkCompleteness ==
    LET base   == Logical(basePath, "metadata").lp
        leaves == {lp \in DOMAIN store : base = "" \/ HasPrefix(lp, base \o "/")}
        name(lp) == engine \o "/metadata/" \o lp
    IN (/\ pc = "write" /\ todo = DOMAIN secrets
        /\ \A i \in DOMAIN reqs : reqs[i].ok)
       => /\ DOMAIN secrets = {name(lp) : lp \in leaves}
          /\ \A lp \in leaves :
                name(lp) \in DOMAIN secrets => secrets[name(lp)] = store[lp]
          /\ \A i, j \in DOMAIN reqs :
                (reqs[i].op = "read" /\ reqs[j].op = "read" /\ reqs[i].for = reqs[j].for)
                   => i = j

\* C16's case: a walk from <engine>/metadata whose listings and reads all
\* succeeded has returned, from a store that holds a leaf in a folder next
\* to a sub-folder.
C16_Witness ==
    /\ pc = "write" /\ todo = DOMAIN secrets
    /\ basePath = engine \o "/metadata"
    /\ \A i \in DOMAIN reqs : reqs[i].ok
    /\ {"app/db", "app/metadata/db"} \subseteq DOMAIN store
    /\ Len(reqs) >= 3

\* C10, as stated: Pull returns an error if and only if the listing at the
\* initial metadataBasePath fails; once that listing has succeeded, every
\* later failure is reported and skipped and Pull returns success.
C10_OnlyInitialListing ==
    (result.pull # "none") => (result.pull = "error" <=> ~reqs[1].ok)

\* C10, corrected: Pull returns an error if and only if some listing issued
\* during the walk fails, that of the initial path or that of any folder
\* under it, and the error names that listing; a leaf that fails to be
\* fetched and a file that fails to be written are each reported by one
\* warning and skipped, and Pull returns success.
C10_AnyListingIsFatal ==
    LET failedLists == {i \in DOMAIN reqs : reqs[i].op = "list" /\ ~reqs[i].ok}
        failedReads == {i \in DOMAIN reqs : reqs[i].op = "read" /\ ~reqs[i].ok}
    IN (pc = "idle" /\ result.pull # "none" /\ result.push = "none") =>
          /\ result.pull = "error" <=> failedLists # {}
          /\ result.pull = "error" =>
                /\ failedLists = {Len(reqs)}
                /\ result.errPath = reqs[Len(reqs)].path
          /\ result.pull = "ok" =>
                /\ Cardinality({w \in DOMAIN warnings : warnings[w].kind = "fetch"})
                      = Cardinality(failedReads)
                /\ \A w \in DOMAIN warnings :
                      warnings[w].kind = "write" => warnings[w].path \in DOMAIN secrets

\* C10's case: the listing of a folder has failed after the listing of the
\* initial path succeeded and a leaf failed to be fetched.
C10_Witness ==
    /\ pc = "idle" /\ result.pull = "error" /\ result.push = "none"
    /\ Len(reqs) >= 3 /\ reqs[1].op = "list" /\ reqs[1].ok
    /\ reqs[Len(reqs)].op = "list" /\ ~reqs[Len(reqs)].ok
    /\ Len(warnings) = 1 /\ warnings[1].kind = "fetch"

====
